---- MODULE Spec2Model ----
(***************************************************************************)
(* mkdocs-click, src/mkdocs_click/parser.py: the recursive walk over a     *)
(* click command tree that renders each command as markdown lines.         *)
(*                                                                         *)
(* A Python str is a sequence of one-character strings, a List[str] is a   *)
(* sequence of such sequences.  Optional[x] is <<>> for None and <<x>>     *)
(* for a value.  Command objects live in 'heap', indexed 1..NumCmds; 0 is  *)
(* the None command.                                                       *)
(***************************************************************************)
EXTENDS Integers, Sequences, FiniteSets, TLC

\* ------------------------------------------------------------------ bounds
NumCmds == 3        \* command objects a module may define
MaxChildren == 2    \* entries of one command's child registry
MaxDepth == 1       \* largest configured "depth" option
MaxTextLen == 2     \* characters of a help / short_help text
MaxOpts == 2        \* declared options of one command
MaxOptLines == 2    \* help-record lines of one option (1 + continuation)

VARIABLES
    block_options,  \* the configuration mapping of the call
    pc,             \* position of generate_command_docs
    imports,        \* number of __import__ attempts of the call
    env,            \* history: what the import of the call met
    raised,         \* Optional[exception] that left the call
    heap,           \* command objects of the imported module
    ctxs,           \* click.Context objects created so far
    stack,          \* activation records of _parse_recursively
    visits,         \* history: one record per _parse_recursively call
    result,         \* Optional[List[str]] returned by the call
    r_cmd,          \* rendering of one command: the command
    r_pc,           \* rendering of one command: next statement
    r_lines,        \* rendering of one command: 'lines'
    r_desc,         \* rendering of one command: _make_description result
    r_opts          \* rendering of one command: _make_options result

vars == << block_options, pc, imports, env, raised, heap, ctxs, stack, visits,
           result, r_cmd, r_pc, r_lines, r_desc, r_opts >>
walkVars == << block_options, pc, imports, env, raised, heap, ctxs, stack, visits,
               result >>
renderVars == << r_cmd, r_pc, r_lines, r_desc, r_opts >>

\* ------------------------------------------------------- Python primitives
None == <<>>
Some(v) == << v >>
NL == "\n"
BS == "\\b"         \* the backspace character
BT == "<backtick>"  \* the grave accent character

\* str * int
Rep(ch, n) == [i \in 1..n |-> ch]

\* code point of the characters that occur in command names
Ord(ch) ==
    CASE ch = "a" -> 97
      [] ch = "b" -> 98
      [] ch = "c" -> 99
      [] ch = " " -> 32
      [] OTHER -> 0

\* Python's str < str: lexicographic by code point, a proper prefix first
StrLess(s, t) ==
    \E i \in 1..(Len(t)) :
        /\ \A j \in 1..(i - 1) : j <= Len(s) /\ s[j] = t[j]
        /\ \/ i = Len(s) + 1
           \/ i <= Len(s) /\ Ord(s[i]) < Ord(t[i])

RECURSIVE Concat(_)
\* list.extend over a sequence of lists
Concat(ss) == IF ss = <<>> THEN <<>> ELSE Head(ss) \o Concat(Tail(ss))

RECURSIVE Join(_, _)
\* sep.join(parts)
Join(sep, parts) ==
    IF parts = <<>> THEN <<>>
    ELSE IF Len(parts) = 1 THEN parts[1]
    ELSE parts[1] \o sep \o Join(sep, Tail(parts))

RECURSIVE SplitOn(_, _, _)
\* the pieces of s between occurrences of ch (cur is the piece being read)
SplitOn(ch, s, cur) ==
    IF s = <<>> THEN << cur >>
    ELSE IF Head(s) = ch THEN << cur >> \o SplitOn(ch, Tail(s), <<>>)
    ELSE SplitOn(ch, Tail(s), Append(cur, Head(s)))

\* str.splitlines(): the pieces between newlines, without a final empty piece
splitlines(s) ==
    LET pieces == SplitOn(NL, s, <<>>)
    IN  IF pieces[Len(pieces)] = <<>> THEN SubSeq(pieces, 1, Len(pieces) - 1)
        ELSE pieces

\* str.replace(ch, "")
replace(s, ch) == SelectSeq(s, LAMBDA c : c # ch)

\* truthiness of an Optional[str]
Truthy(o) == o # None /\ o[1] # <<>>

\* a or b
Or(a, b) == IF Truthy(a) THEN a ELSE b

RECURSIVE int(_)
\* int() of a string of decimal digits
DigitVal(ch) ==
    CASE ch = "0" -> 0 [] ch = "1" -> 1 [] ch = "2" -> 2 [] ch = "3" -> 3
      [] ch = "4" -> 4 [] ch = "5" -> 5 [] ch = "6" -> 6 [] ch = "7" -> 7
      [] ch = "8" -> 8 [] ch = "9" -> 9
int(s) ==
    IF s = <<>> THEN 0
    ELSE 10 * int(SubSeq(s, 1, Len(s) - 1)) + DigitVal(s[Len(s)])

\* ------------------------------------------------------------ string literals
S_Usage == << "U", "s", "a", "g", "e", ":" >>
S_Fence == << BT, BT, BT >>
S_FenceCode == << BT, BT, BT, "c", "o", "d", "e" >>
S_Options == << "O", "p", "t", "i", "o", "n", "s", ":" >>
S_OptionsMetavar == << "[", "O", "P", "T", "I", "O", "N", "S", "]" >>
S_SubcommandMetavar ==
    << "C", "O", "M", "M", "A", "N", "D", " ", "[", "A", "R", "G", "S", "]",
       ".", ".", "." >>
S_HelpRecord == << " ", " ", "-", "-", "h", "e", "l", "p" >>

\* ------------------------------------------------------------ command objects
\* A command object:
\*   name            Command.name
\*   help            Command.help        (Optional[str])
\*   short_help      Command.short_help  (Optional[str])
\*   params          declared options, each <<flag character, record lines>>
\*   add_help_option Command.add_help_option
\*   kind            "Command"   a click.Command: no children
\*                   "Group"     a click.Group: 'commands' is the registry
\*                   "Multi"     a click.MultiCommand with list_commands /
\*                               get_command and no 'commands' attribute
\*                   "LazyGroup" a click.Group subclass whose 'commands' stays
\*                               empty and that overrides list_commands /
\*                               get_command
\*   decl            the registry: a sequence of <<registered name, command>>
\*                   in declaration order; command 0 is a name that
\*                   get_command resolves to None

\* isinstance(command, click.MultiCommand)
IsMultiCommand(cmd) == cmd.kind \in {"Group", "Multi", "LazyGroup"}

\* hasattr(command, "commands")
HasCommandsAttr(cmd) == cmd.kind \in {"Group", "LazyGroup"}

\* command.commands
CommandsAttr(cmd) == IF cmd.kind = "Group" THEN cmd.decl ELSE <<>>

\* MultiCommand.list_commands(ctx)
list_commands(cmd) == [i \in 1..Len(cmd.decl) |-> cmd.decl[i][1]]

\* MultiCommand.get_command(ctx, name)
get_command(cmd, name) ==
    IF \E i \in 1..Len(cmd.decl) : cmd.decl[i][1] = name
    THEN cmd.decl[CHOOSE i \in 1..Len(cmd.decl) : cmd.decl[i][1] = name][2]
    ELSE 0

\* ------------------------------------------------------------------ the inputs
Names == { << "a" >>, << "b" >> }
Cmds == 1..NumCmds

\* description and options of the command objects of a module: three kinds
\* of command, by index
HelpOf(c) == IF c % 3 = 1 THEN Some(<< "x", BS, NL, NL, "y" >>) ELSE None
ShortHelpOf(c) == IF c % 3 = 2 THEN Some(<< "s" >>) ELSE None
ParamsOf(c) ==
    IF c % 3 = 2 THEN << << "v", 1 >> >>
    ELSE IF c % 3 = 0 THEN << << "v", 2 >>, << "w", 1 >> >>
    ELSE <<>>

\* the name command c is registered under in its parent: "a", "b", "aa",
\* "bb", ..., which may or may not be the command's own name
KeyOf(c) == IF c % 2 = 0 THEN Rep("a", c \div 2) ELSE Rep("b", c \div 2)

\* a listed name that get_command resolves to None
S_Dangling == << "c" >>

CmdObject(c, name, kind, children, dangling) ==
    [name |-> name, help |-> HelpOf(c), short_help |-> ShortHelpOf(c),
     params |-> ParamsOf(c), add_help_option |-> TRUE,
     kind |-> kind,
     decl |-> [i \in 1..Len(children) |-> << KeyOf(children[i]), children[i] >>]
                \o (IF dangling THEN << << S_Dangling, 0 >> >> ELSE <<>>)]

\* an object no command refers to
Unused(c) == CmdObject(c, <<>>, "Unused", <<>>, FALSE)

\* a registered command of which only the name has been read
Registered(c, name) == CmdObject(c, name, "Unread", <<>>, FALSE)

\* the first k elements of a set of numbers, ascending
RECURSIVE FirstOf(_, _)
FirstOf(S, k) ==
    IF k = 0 \/ S = {} THEN <<>>
    ELSE LET m == CHOOSE x \in S : \A y \in S : x <= y
         IN  << m >> \o FirstOf(S \ {m}, k - 1)

\* The objects a registered command c named name may turn out to be when its
\* class and registry are first read: its children are commands no registry
\* holds yet (a command is registered in one parent, the tree is acyclic);
\* only a lazy registry ("Multi") may list a name that resolves to None.
CmdObjects(c, name, free) ==
    { CmdObject(c, name, "Command", <<>>, FALSE) }
    \cup { CmdObject(c, name, k, FirstOf(free, n), FALSE) :
             k \in {"Group", "Multi", "LazyGroup"},
             n \in 0..(IF Cardinality(free) < MaxChildren THEN Cardinality(free)
                       ELSE MaxChildren) }
    \cup { CmdObject(c, name, "Multi", FirstOf(free, n), TRUE) :
             n \in 0..(IF Cardinality(free) < MaxChildren THEN Cardinality(free)
                       ELSE MaxChildren) }

ChildrenOf(o) == { o.decl[i][2] : i \in 1..Len(o.decl) } \ {0}

\* What the import of the module meets: how the import ends, and the
\* attribute the module body defines (its type; for a command object, its
\* name).  A module may define the attribute and still raise or exit.
ModuleEnvs ==
    { [import |-> i, attr |-> t, name |-> <<>>] :
        i \in {"raises", "exits", "loads"}, t \in {"absent", "str", "int"} }
    \cup { [import |-> i, attr |-> "BaseCommand", name |-> n] :
        i \in {"raises", "exits", "loads"}, n \in Names }

NoEnv == [import |-> "none", attr |-> "absent", name |-> <<>>]

\* decimal digits of a small natural number
Digits(n) ==
    << CASE n = 0 -> "0" [] n = 1 -> "1" [] n = 2 -> "2" [] n = 3 -> "3"
         [] n = 4 -> "4" [] n = 5 -> "5" [] n = 6 -> "6" [] n = 7 -> "7"
         [] n = 8 -> "8" [] n = 9 -> "9" >>

Configs ==
    [module : {None, Some(<< "m" >>)},
     command : {None, Some(<< "a" >>)},
     depth : {None} \cup { Some(Digits(n)) : n \in 0..MaxDepth }]

\* ------------------------------------------------------- Metadata Extractor
\* faulty variant: one '#' per level
_make_header_short(text, level) == Rep("#", level) \o << " " >> \o text

_make_header(text, level) == Rep("#", level + 1) \o << " " >> \o text

_make_title(prog_name, level) == << _make_header(prog_name, level), <<>> >>

\* faulty variant: no fallback to short_help
_make_description_help_only(cmd) ==
    LET help_string == cmd.help
    IN  IF Truthy(help_string) THEN Append(splitlines(help_string[1]), <<>>)
        ELSE <<>>

_make_description(cmd) ==
    LET help_string == Or(cmd.help, cmd.short_help)
    IN  IF Truthy(help_string) THEN Append(splitlines(help_string[1]), <<>>)
        ELSE <<>>

\* Command.collect_usage_pieces(ctx)
collect_usage_pieces(cmd) ==
    IF IsMultiCommand(cmd) THEN << S_OptionsMetavar, S_SubcommandMetavar >>
    ELSE << S_OptionsMetavar >>

\* formatter.write_usage("", args, prefix="") ; getvalue().rstrip("\n")
write_usage(args) == << " " >> \o args

RECURSIVE FullPath(_, _, _)
\* the while loop of _make_usage: names from `current` up to the root
FullPath(h, cs, current) ==
    IF current = 0 THEN <<>>
    ELSE << h[cs[current].command].name >> \o FullPath(h, cs, cs[current].parent)

\* list.reverse()
Reverse(s) == [i \in 1..Len(s) |-> s[Len(s) + 1 - i]]

\* faulty variant: full_path is not reversed
_make_usage_unreversed(h, cs, ctx) ==
    LET usage == write_usage(Join(<< " " >>, collect_usage_pieces(h[cs[ctx].command])))
        full_path == FullPath(h, cs, ctx)
    IN  << S_Usage, S_Fence, Join(<< " " >>, full_path) \o usage, S_Fence >>

_make_usage(h, cs, ctx) ==
    LET usage == write_usage(Join(<< " " >>, collect_usage_pieces(h[cs[ctx].command])))
        full_path == Reverse(FullPath(h, cs, ctx))
    IN  << S_Usage, S_Fence, Join(<< " " >>, full_path) \o usage, S_Fence >>

\* the lines write_dl emits for one option: the flag line, then continuations
OptionRecord(p) ==
    << << " ", " ", "-", "-", p[1] >> >>
        \o [i \in 1..(p[2] - 1) |-> << " ", " ", " ", " ", " ", p[1] >>]

\* Command.format_options(command, ctx, formatter) ; formatter.getvalue()
\* as lines: nothing without records, else the heading and the records,
\* the help option's record last
format_options(cmd) ==
    LET recs == Concat([i \in 1..Len(cmd.params) |-> OptionRecord(cmd.params[i])])
                    \o (IF cmd.add_help_option THEN << S_HelpRecord >> ELSE <<>>)
    IN  IF recs = <<>> THEN <<>> ELSE << S_Options >> \o recs

\* seq[1:-1]
Slice1m1(s) == SubSeq(s, 2, Len(s) - 1)

_make_options(cmd) ==
    LET option_lines == Slice1m1(format_options(cmd))
    IN  IF option_lines = <<>> THEN <<>>
        ELSE << S_Options, S_FenceCode >> \o option_lines \o << S_Fence >>

\* ------------------------------------------------------- Subcommand Enumerator
\* d[key] = value on a dict kept as a sequence of <<key, value>> items
DictSet(d, key, value) ==
    IF \E i \in 1..Len(d) : d[i][1] = key
    THEN [i \in 1..Len(d) |-> IF d[i][1] = key THEN << key, value >> ELSE d[i]]
    ELSE Append(d, << key, value >>)

\* sorted(items, key=...) where keys[i] is the key of items[i], a str; stable:
\* an item goes after the items with a smaller key and after the earlier
\* items with an equal key
SortedBy(items, keys) ==
    LET n == Len(items)
        rank(i) ==
            Cardinality({j \in 1..n : StrLess(keys[j], keys[i])})
            + Cardinality({j \in 1..(i - 1) : keys[j] = keys[i]})
            + 1
    IN  [p \in 1..n |-> items[CHOOSE i \in 1..n : rank(i) = p]]

\* MultiCommand.list_commands(ctx): click.Group lists its registry sorted
ListCommands(cmd) ==
    IF cmd.kind = "Group"
    THEN SortedBy(list_commands(cmd), list_commands(cmd))
    ELSE list_commands(cmd)

\* the assert of _get_lazyload_commands fails for some listed name
LazyloadAsserts(cmd) ==
    \E i \in 1..Len(ListCommands(cmd)) : get_command(cmd, ListCommands(cmd)[i]) = 0

RECURSIVE LazyloadFrom(_, _, _)
\* the for loop of _get_lazyload_commands over the names still to resolve
LazyloadFrom(cmd, names, commands) ==
    IF names = <<>> THEN commands
    ELSE LazyloadFrom(cmd, Tail(names),
                      DictSet(commands, Head(names), get_command(cmd, Head(names))))

_get_lazyload_commands(cmd) == LazyloadFrom(cmd, ListCommands(cmd), <<>>)

\* getattr(ctx.command, "commands", {})
GetattrCommands(cmd) == IF HasCommandsAttr(cmd) THEN CommandsAttr(cmd) ELSE <<>>

\* faulty variant: lazy resolution only for commands without a 'commands' attribute
NeedsLazyload_no_attr(cmd) == ~HasCommandsAttr(cmd) /\ IsMultiCommand(cmd)

\* the guard of line 125
NeedsLazyload(cmd) == GetattrCommands(cmd) = <<>> /\ IsMultiCommand(cmd)

\* lines 124-126: the dict 'lookup', as items <<registered name, command>>
Lookup(cmd) ==
    IF NeedsLazyload(cmd) THEN _get_lazyload_commands(cmd) ELSE GetattrCommands(cmd)

\* faulty variant: the children are taken in registry order
SortedCommands_unsorted(h, lookup) == lookup

\* line 127: sorted(lookup.values(), key=lambda item: item.name); every value
\* keeps the name it was registered under beside it
SortedCommands(h, lookup) ==
    SortedBy(lookup, [i \in 1..Len(lookup) |-> h[lookup[i][2]].name])

\* ----------------------------------------------------------------- Tree Walker
\* lines 116-121: the fragment of one command
Fragment(h, cs, ctx, prog_name, level) ==
    _make_title(prog_name, level)
        \o _make_description(h[cs[ctx].command])
        \o _make_usage(h, cs, ctx)
        \o _make_options(h[cs[ctx].command])

\* line 131: [l.replace("\b", "") for l in lines]
StripBackspace(lines) == [i \in 1..Len(lines) |-> replace(lines[i], BS)]

AssertionError == [type |-> "AssertionError", msg |-> <<>>]

\* the commands no registry holds yet
FreeCmds == { c \in Cmds : heap[c].kind = "Unused" }

\* A call _parse_recursively(prog_name, command, parent, level), lines 116-127:
\* a new Context, the fragment, the children to recurse into.  The class and
\* registry of the command are read here for the first time (object o), and
\* so are the names of its children.
ParseCall(prog_name, command, parent, level, key) ==
    \E o \in CmdObjects(command, heap[command].name, FreeCmds) :
    \E names \in [ChildrenOf(o) -> Names] :
    LET h == [c \in Cmds |->
                IF c = command THEN o
                ELSE IF c \in ChildrenOf(o) THEN Registered(c, names[c])
                ELSE heap[c]]
        ctx == Len(ctxs) + 1
        cs == Append(ctxs, [command |-> command, parent |-> parent])
    IN  /\ heap' = h
        /\ ctxs' = cs
        /\ visits' = Append(visits, [command |-> command, prog_name |-> prog_name,
                                     level |-> level, key |-> key])
        /\ IF NeedsLazyload(o) /\ LazyloadAsserts(o)
           THEN /\ raised' = Some(AssertionError)
                /\ pc' = "raised"
                /\ stack' = <<>>
           ELSE /\ stack' = Append(stack,
                    [ctx |-> ctx, level |-> level,
                     lines |-> Fragment(h, cs, ctx, prog_name, level),
                     commands |-> SortedCommands(h, Lookup(o)),
                     i |-> 1])
                /\ pc' = "walk"
                /\ UNCHANGED raised

Top == stack[Len(stack)]

\* ------------------------------------------------------ generate_command_docs
MKClickConfigException(msg) == [type |-> "MKClickConfigException", msg |-> msg]

\* faulty variant: the second required option is not checked
required_options_module_only == << "module" >>

required_options == << "module", "command" >>

\* option not in block_options
Missing(option) == block_options[option] = None

\* faulty variant: the isinstance check of line 39 is missing
_load_command_unchecked(module_path, module_name, e) ==
    IF e.import # "loads"
    THEN Some(MKClickConfigException(
            [fmt |-> "Failed to import '{module_name}' from '{module_path}'. ",
             detail |-> IF e.import = "exits"
                        THEN "The module appeared to call sys.exit()"
                        ELSE "The following exception was raised:\n{traceback.format_exc()}",
             args |-> << module_name, module_path >>]))
    ELSE IF e.attr = "absent"
    THEN Some(MKClickConfigException(
            [fmt |-> "Module '{module_path}' has no attribute '{module_name}'",
             detail |-> "",
             args |-> << module_path, module_name >>]))
    ELSE None

\* _load_command(module_path, module_name) in environment e: the exception
\* it raises, or None when it returns the parser
_load_command(module_path, module_name, e) ==
    IF e.import # "loads"
    THEN Some(MKClickConfigException(
            [fmt |-> "Failed to import '{module_name}' from '{module_path}'. ",
             detail |-> IF e.import = "exits"
                        THEN "The module appeared to call sys.exit()"
                        ELSE "The following exception was raised:\n{traceback.format_exc()}",
             args |-> << module_name, module_path >>]))
    ELSE IF e.attr = "absent"
    THEN Some(MKClickConfigException(
            [fmt |-> "Module '{module_path}' has no attribute '{module_name}'",
             detail |-> "",
             args |-> << module_path, module_name >>]))
    ELSE IF e.attr # "BaseCommand"
    THEN Some(MKClickConfigException(
            [fmt |-> "'{module_path}' of type '{type(parser)}' is not derived from 'click.BaseCommand'",
             detail |-> "",
             args |-> << module_path, e.attr >>]))
    ELSE None

\* the single-command rendering is not running
RenderIdle ==
    /\ r_cmd = Unused(1)
    /\ r_pc = "idle"
    /\ r_lines = <<>>
    /\ r_desc = None
    /\ r_opts = None

Init ==
    /\ block_options \in Configs
    /\ pc = "start"
    /\ imports = 0
    /\ env = NoEnv
    /\ raised = None
    /\ heap = <<>>
    /\ ctxs = <<>>
    /\ stack = <<>>
    /\ visits = <<>>
    /\ result = None
    /\ RenderIdle

\* lines 137-146: the required options
CheckOptions ==
    /\ pc = "start"
    /\ IF \E k \in 1..Len(required_options) : Missing(required_options[k])
       THEN LET k == CHOOSE k \in 1..Len(required_options) :
                        /\ Missing(required_options[k])
                        /\ \A j \in 1..(k - 1) : ~Missing(required_options[j])
            IN  /\ raised' = Some(MKClickConfigException(
                        [fmt |-> "Parameter {} is required for mkdocs-click. Provided configuration was {}",
                         detail |-> "",
                         args |-> << required_options[k], block_options >>]))
                /\ pc' = "raised"
       ELSE /\ pc' = "load"
            /\ UNCHANGED raised
    /\ UNCHANGED << block_options, imports, env, heap, ctxs, stack, visits, result >>
    /\ UNCHANGED renderVars

\* line 147: click_command = _load_command(module_path, command)
LoadCommand ==
    /\ pc = "load"
    /\ imports' = imports + 1
    /\ \E e \in ModuleEnvs :
        LET exc == _load_command(block_options.module[1], block_options.command[1], e)
        IN  /\ env' = e
            /\ IF exc # None
               THEN /\ raised' = exc
                    /\ pc' = "raised"
                    /\ UNCHANGED heap
               ELSE /\ heap' = [c \in Cmds |->
                               IF c = 1 THEN Registered(c, e.name) ELSE Unused(c)]
                    /\ pc' = "parse"
                    /\ UNCHANGED raised
    /\ UNCHANGED << block_options, ctxs, stack, visits, result >>
    /\ UNCHANGED renderVars

\* line 146: depth = int(block_options.get("depth", 0))
Depth == IF block_options.depth = None THEN 0 ELSE int(block_options.depth[1])

\* line 148: _parse_recursively(command, click_command, level=depth)
ParseRoot ==
    /\ pc = "parse"
    /\ ParseCall(block_options.command[1], 1, 0, Depth, block_options.command[1])
    /\ UNCHANGED << block_options, imports, env, result >>
    /\ UNCHANGED renderVars

\* lines 129-130: the next child
Recurse ==
    /\ pc = "walk"
    /\ Top.i <= Len(Top.commands)
    /\ LET item == Top.commands[Top.i]
       IN  ParseCall(heap[item[2]].name, item[2], Top.ctx, Top.level + 1, item[1])
    /\ UNCHANGED << block_options, imports, env, result >>
    /\ UNCHANGED renderVars

\* faulty variant: the child's lines go before the caller's lines
Return_prepend ==
    /\ pc = "walk"
    /\ Top.i > Len(Top.commands)
    /\ LET out == StripBackspace(Top.lines)
           n == Len(stack)
       IN  IF n = 1
           THEN /\ result' = Some(out)
                /\ stack' = <<>>
                /\ pc' = "done"
           ELSE /\ stack' = [SubSeq(stack, 1, n - 1) EXCEPT
                                ![n - 1].lines = out \o @,
                                ![n - 1].i = @ + 1]
                /\ UNCHANGED << result, pc >>
    /\ UNCHANGED << block_options, imports, env, raised, heap, ctxs, visits >>
    /\ UNCHANGED renderVars

\* line 131, then lines.extend(...) of the caller's line 130 or the return of
\* line 148
Return ==
    /\ pc = "walk"
    /\ Top.i > Len(Top.commands)
    /\ LET out == StripBackspace(Top.lines)
           n == Len(stack)
       IN  IF n = 1
           THEN /\ result' = Some(out)
                /\ stack' = <<>>
                /\ pc' = "done"
           ELSE /\ stack' = [SubSeq(stack, 1, n - 1) EXCEPT
                                ![n - 1].lines = @ \o out,
                                ![n - 1].i = @ + 1]
                /\ UNCHANGED << result, pc >>
    /\ UNCHANGED << block_options, imports, env, raised, heap, ctxs, visits >>
    /\ UNCHANGED renderVars

Next == CheckOptions \/ LoadCommand \/ ParseRoot \/ Recurse \/ Return

Spec == Init /\ [][Next]_vars

\* ------------------------------------------- rendering one command, by statement
\* _parse_recursively(name, command) on a command without children, one
\* statement of lines 116-121 and 131 at a time.
Texts == UNION { [1..k -> {"x", NL, BS}] : k \in 0..MaxTextLen }
OptTexts == {None} \cup { Some(t) : t \in Texts }

Flags == << "v", "w", "u", "t" >>
FlagOf(i) == Flags[((i - 1) % Len(Flags)) + 1]

\* declared options: each <<flag character, number of record lines>>
ParamSeqs ==
    UNION { { [i \in 1..n |-> << FlagOf(i), ks[i] >>] : ks \in [1..n -> 1..MaxOptLines] } :
            n \in 0..MaxOpts }

RenderCmds ==
    { [name |-> << "a" >>, help |-> h, short_help |-> sh, params |-> ps,
       add_help_option |-> a, kind |-> "Command", decl |-> <<>>] :
        h \in OptTexts, sh \in OptTexts, ps \in ParamSeqs, a \in BOOLEAN }

\* the Context of the call: no parent
RenderCtxs == << [command |-> 1, parent |-> 0] >>

InitRender ==
    /\ block_options = [module |-> None, command |-> None, depth |-> None]
    /\ pc = "idle"
    /\ imports = 0
    /\ env = NoEnv
    /\ raised = None
    /\ heap = <<>>
    /\ ctxs = <<>>
    /\ stack = <<>>
    /\ visits = <<>>
    /\ result = None
    /\ r_cmd \in RenderCmds
    /\ r_pc = "title"
    /\ r_lines = <<>>
    /\ r_desc = None
    /\ r_opts = None

\* line 118
RenderTitle ==
    /\ r_pc = "title"
    /\ r_lines' = r_lines \o _make_title(r_cmd.name, 0)
    /\ r_pc' = "description"
    /\ UNCHANGED << r_cmd, r_desc, r_opts >>
    /\ UNCHANGED walkVars

\* line 119
RenderDescription ==
    /\ r_pc = "description"
    /\ r_desc' = Some(_make_description(r_cmd))
    /\ r_lines' = r_lines \o _make_description(r_cmd)
    /\ r_pc' = "usage"
    /\ UNCHANGED << r_cmd, r_opts >>
    /\ UNCHANGED walkVars

\* line 120
RenderUsage ==
    /\ r_pc = "usage"
    /\ r_lines' = r_lines \o _make_usage(<< r_cmd >>, RenderCtxs, 1)
    /\ r_pc' = "options"
    /\ UNCHANGED << r_cmd, r_desc, r_opts >>
    /\ UNCHANGED walkVars

\* line 121
RenderOptions ==
    /\ r_pc = "options"
    /\ r_opts' = Some(_make_options(r_cmd))
    /\ r_lines' = r_lines \o _make_options(r_cmd)
    /\ r_pc' = "return"
    /\ UNCHANGED << r_cmd, r_desc >>
    /\ UNCHANGED walkVars

\* line 131
RenderReturn ==
    /\ r_pc = "return"
    /\ r_lines' = StripBackspace(r_lines)
    /\ r_pc' = "done"
    /\ UNCHANGED << r_cmd, r_desc, r_opts >>
    /\ UNCHANGED walkVars

NextRender ==
    RenderTitle \/ RenderDescription \/ RenderUsage \/ RenderOptions \/ RenderReturn

SpecRender == InitRender /\ [][NextRender]_vars

\* ============================================================== properties
\* the configuration lacks a required key
LacksRequired == block_options.module = None \/ block_options.command = None

ConfigFmt == "Parameter {} is required for mkdocs-click. Provided configuration was {}"

\* C5: a configuration without 'module' or 'command' makes the call fail with
\* a configuration error that names a missing key and carries the whole
\* configuration, and no import is attempted; an import is attempted at most
\* once per call and only after both keys were found present.
C5_ConfigErrorBeforeImport ==
    /\ imports <= 1
    /\ imports = 1 => ~LacksRequired /\ pc # "start"
    /\ LacksRequired =>
        /\ imports = 0
        /\ pc \in {"start", "raised"}
        /\ result = None
        /\ pc = "raised" =>
            /\ raised # None
            /\ raised[1].type = "MKClickConfigException"
            /\ raised[1].msg.fmt = ConfigFmt
            /\ raised[1].msg.args[1] \in { k \in {"module", "command"} : block_options[k] = None }
            /\ raised[1].msg.args[2] = block_options

\* C5 witness: the call failed on a configuration that has 'module' and lacks
\* 'command'
C5_Witness ==
    /\ pc = "raised"
    /\ block_options.module # None
    /\ block_options.command = None
    /\ raised # None

ImportFmt == "Failed to import '{module_name}' from '{module_path}'. "
TracebackDetail == "The following exception was raised:\n{traceback.format_exc()}"
ExitDetail == "The module appeared to call sys.exit()"
AttributeFmt == "Module '{module_path}' has no attribute '{module_name}'"
TypeFmt == "'{module_path}' of type '{type(parser)}' is not derived from 'click.BaseCommand'"

\* the error kind reported by an exception of _load_command
ErrorKind(exc) == << exc.msg.fmt, exc.msg.detail >>

\* the outcome _load_command must have in the environment of the import
ExpectedKind ==
    IF env.import = "raises" THEN << ImportFmt, TracebackDetail >>
    ELSE IF env.import = "exits" THEN << ImportFmt, ExitDetail >>
    ELSE IF env.attr = "absent" THEN << AttributeFmt, "" >>
    ELSE IF env.attr # "BaseCommand" THEN << TypeFmt, "" >>
    ELSE << "returned", "" >>

\* C6: _load_command ends in one of five outcomes, decided in this order:
\* import raised (error with the traceback), import exited (error without
\* traceback), attribute absent, attribute not a command (error naming the
\* type found), else the command is returned; the four errors are distinct
\* kinds and nothing is traversed or rendered after any of them.
C6_LoadOutcomes ==
    imports = 1 =>
        /\ ExpectedKind[1] = "returned" =>
            /\ heap # <<>>
            /\ heap[1].name = env.name
            /\ raised # None => raised[1].type = "AssertionError"
        /\ ExpectedKind[1] # "returned" =>
            /\ pc = "raised"
            /\ raised # None
            /\ raised[1].type = "MKClickConfigException"
            /\ ErrorKind(raised[1]) = ExpectedKind
            /\ \A other \in { << ImportFmt, TracebackDetail >>, << ImportFmt, ExitDetail >>,
                              << AttributeFmt, "" >>, << TypeFmt, "" >> } \ {ExpectedKind} :
                    ErrorKind(raised[1]) # other
            /\ ExpectedKind[1] = TypeFmt => raised[1].msg.args[2] = env.attr
            /\ heap = <<>> /\ ctxs = <<>> /\ visits = <<>> /\ stack = <<>>
            /\ result = None

\* C6 witness: the attribute was found and is a str, and the call failed
C6_Witness ==
    /\ imports = 1
    /\ env.import = "loads"
    /\ env.attr = "str"
    /\ pc = "raised"

\* ------------------------------------------------- reading a rendered document
Doc == result[1]

IsTitle(doc, i) == doc[i] # <<>> /\ doc[i][1] = "#"
IsUsageLine(doc, i) == i > 2 /\ doc[i - 2] = S_Usage /\ doc[i - 1] = S_Fence

\* number of leading '#' of a line
Hashes(line) == Cardinality({ k \in 1..Len(line) : \A j \in 1..k : line[j] = "#" })

\* the text of a title line, after the '#'s and the space
TitleText(line) == SubSeq(line, Hashes(line) + 2, Len(line))

\* the title lines and the usage lines of the document, in order: the k-th
\* of each belongs to the k-th call of _parse_recursively
TitleLines ==
    LET idx == SelectSeq([i \in 1..Len(Doc) |-> i], LAMBDA i : IsTitle(Doc, i))
    IN  [k \in 1..Len(idx) |-> Doc[idx[k]]]
UsageLines ==
    LET idx == SelectSeq([i \in 1..Len(Doc) |-> i], LAMBDA i : IsUsageLine(Doc, i))
    IN  [k \in 1..Len(idx) |-> Doc[idx[k]]]

\* the call that made call k (0 for the root call) and its sibling calls
ParentCall(k) == ctxs[k].parent
Siblings(i, j) == i < j /\ ParentCall(i) = ParentCall(j)

\* the command tree as the registries define it
ParentCmd(c) == CHOOSE q \in Cmds : c \in ChildrenOf(heap[q])
RECURSIVE ChainOf(_)
\* the commands from the root to c
ChainOf(c) == IF c = 1 THEN << 1 >> ELSE Append(ChainOf(ParentCmd(c)), c)
NamesOf(chain) == [k \in 1..Len(chain) |-> heap[chain[k]].name]

\* C1 as stated: siblings appear in ascending order of the names they are
\* registered under in their parent
C1_SortedByRegisteredName ==
    pc = "done" =>
        /\ result # None
        /\ Len(TitleLines) = Len(visits)
        /\ \A i, j \in 1..Len(visits) :
            Siblings(i, j) => ~StrLess(visits[j].key, visits[i].key)

\* C1 amended: the children of every node appear in the document in
\* ascending order of their own names (Command.name, the name their title
\* shows, compared as Python strings), whatever the declaration order and
\* whichever enumerator returned them
C1_SortedByCommandName ==
    pc = "done" =>
        /\ result # None
        /\ LET titles == TitleLines
           IN  /\ Len(titles) = Len(visits)
               /\ \A i \in 2..Len(visits) :
                    TitleText(titles[i]) = heap[visits[i].command].name
               /\ \A i, j \in 1..Len(visits) :
                    Siblings(i, j) =>
                        ~StrLess(TitleText(titles[j]), TitleText(titles[i]))

\* C1 witness: a rendered node declares a child with a larger name before a
\* child with a smaller name
C1_Witness ==
    /\ pc = "done"
    /\ \E c \in Cmds :
        /\ Len(heap[c].decl) = 2
        /\ StrLess(heap[heap[c].decl[2][2]].name, heap[heap[c].decl[1][2]].name)

\* the depth the configuration asks for
ConfiguredDepth(n) ==
    \/ block_options.depth = Some(Digits(n))
    \/ n = 0 /\ block_options.depth = None

\* C2: the root's title has d + 1 '#' for the configured starting depth d
\* (default 0), and every child's title has exactly one '#' more than its
\* parent's title
C2_HeaderLevels ==
    pc = "done" =>
        /\ result # None
        /\ \E n \in 0..MaxDepth : ConfiguredDepth(n)
        /\ LET titles == TitleLines
           IN  /\ Len(titles) = Len(visits)
               /\ \A n \in 0..MaxDepth :
                    ConfiguredDepth(n) => Hashes(titles[1]) = n + 1
               /\ \A i \in 2..Len(visits) :
                    Hashes(titles[i]) = Hashes(titles[ParentCall(i)]) + 1

\* C2 witness: a document with configured depth 1 and a child of the root
C2_Witness ==
    /\ pc = "done"
    /\ ConfiguredDepth(1)
    /\ Len(visits) >= 2

\* the space-separated segments of a usage line
Segments(line) == SplitOn(" ", line, <<>>)

\* C4: the invocation path in the usage line of a command with D ancestors
\* has exactly D + 1 space-joined segments, the names of the commands from
\* the root to the command
C4_UsagePath ==
    pc = "done" =>
        /\ result # None
        /\ LET usages == UsageLines
           IN  /\ Len(usages) = Len(visits)
               /\ \A i \in 1..Len(visits) :
                    LET chain == ChainOf(visits[i].command)
                        segs == Segments(usages[i])
                    IN  /\ Len(segs) > Len(chain)
                        /\ SubSeq(segs, 1, Len(chain)) = NamesOf(chain)
                        /\ segs[Len(chain) + 1] = S_OptionsMetavar

\* C4 witness: a rendered command with two ancestors
C4_Witness ==
    /\ pc = "done"
    /\ \E i \in 1..Len(visits) : Len(ChainOf(visits[i].command)) = 3

\* C10 as stated: for every rendered node, the root included, the name in the
\* title is the last segment of the invocation path of the node's usage line
C10_TitleIsLastSegment ==
    pc = "done" =>
        /\ result # None
        /\ LET titles == TitleLines
               usages == UsageLines
           IN  /\ Len(titles) = Len(visits)
               /\ Len(usages) = Len(visits)
               /\ \A i \in 1..Len(visits) :
                    LET chain == ChainOf(visits[i].command)
                    IN  TitleText(titles[i]) = Segments(usages[i])[Len(chain)]

\* the children of command object o in the order the document must show
\* them: the registered commands, ascending by name, equal names in
\* declaration order
RegistryValues(o) == [k \in 1..Len(o.decl) |-> o.decl[k][2]]
ChildrenInOrder(o) ==
    LET vals == RegistryValues(o)
        n == Len(vals)
    IN  CHOOSE q \in [1..n -> ChildrenOf(o)] :
            /\ \A c \in ChildrenOf(o) : \E k \in 1..n : q[k] = c
            /\ \A i, j \in 1..n :
                i < j =>
                    /\ ~StrLess(heap[q[j]].name, heap[q[i]].name)
                    /\ heap[q[i]].name = heap[q[j]].name =>
                        \E a, b \in 1..n : a < b /\ vals[a] = q[i] /\ vals[b] = q[j]

\* the Context chain of a command reached along chain
ChainCtxs(chain) == [k \in 1..Len(chain) |-> [command |-> chain[k], parent |-> k - 1]]

RECURSIVE DocOf(_, _, _)
\* the document of the command at the end of chain, titled title, at level
\* Len(chain) - 1 + base: its fragment, then the documents of its children
DocOf(chain, title, level) ==
    LET o == heap[chain[Len(chain)]]
        kids == ChildrenInOrder(o)
    IN  StripBackspace(
            _make_title(title, level)
                \o _make_description(o)
                \o _make_usage(heap, ChainCtxs(chain), Len(chain))
                \o _make_options(o))
        \o Concat([k \in 1..Len(kids) |->
                    DocOf(Append(chain, kids[k]), heap[kids[k]].name, level + 1)])

\* the commands of the tree below and including c
RECURSIVE Subtree(_)
Subtree(c) == {c} \cup UNION { Subtree(d) : d \in ChildrenOf(heap[c]) }

ExpectedChildren(o) ==
    IF o.kind \in {"Group", "LazyGroup"} /\ CommandsAttr(o) # <<>>
    THEN { CommandsAttr(o)[k][2] : k \in 1..Len(CommandsAttr(o)) }
    ELSE IF o.kind \in {"Group", "Multi", "LazyGroup"}
    THEN { o.decl[k][2] : k \in 1..Len(o.decl) }
    ELSE {}

\* a declared name of a lazily resolved command object resolves to nothing
Dangles(o) ==
    /\ o.kind \in {"Multi", "LazyGroup"} \/ (o.kind = "Group" /\ o.decl = <<>>)
    /\ \E k \in 1..Len(o.decl) : o.decl[k][2] = 0

\* the commands the walker recursed into from call i
RecursedFrom(i) == { visits[j].command : j \in { k \in 1..Len(visits) : ParentCall(k) = i } }

\* C9: the walker recurses into the eager child mapping when the node has a
\* populated one, else into the commands its declared names resolve to, else
\* into nothing; a declared name that resolves to nothing ends the generation
\* with an assertion failure and no document
C9_ChildrenEnumerated ==
    /\ pc = "done" =>
        \A i \in 1..Len(visits) :
            /\ RecursedFrom(i) = ExpectedChildren(heap[visits[i].command])
            /\ heap[visits[i].command].kind = "Command" => RecursedFrom(i) = {}
    /\ (\E i \in 1..Len(visits) : Dangles(heap[visits[i].command]))
        <=> raised = Some(AssertionError)
    /\ raised = Some(AssertionError) => pc = "raised" /\ result = None

\* C9 witness: a document whose tree has a group with an empty eager mapping
\* and lazily resolved children
C9_Witness ==
    /\ pc = "done"
    /\ \E i \in 1..Len(visits) :
        /\ heap[visits[i].command].kind = "LazyGroup"
        /\ RecursedFrom(i) # {}

\* --------------------------------------------- properties of one command
HasText(o) == o # None /\ o[1] # <<>>

\* lines are the lines of text: joined by newlines they give text back, up to
\* one final newline
LinesOf(lines, text) ==
    /\ \A k \in 1..Len(lines) : \A j \in 1..Len(lines[k]) : lines[k][j] # NL
    /\ \/ Join(<< NL >>, lines) = text
       \/ Join(<< NL >>, lines) \o << NL >> = text

\* desc is the lines of text followed by one blank line
DescriptionOf(desc, text) ==
    /\ desc # <<>>
    /\ desc[Len(desc)] = <<>>
    /\ LinesOf(SubSeq(desc, 1, Len(desc) - 1), text)

\* C7: _make_description returns the lines of the help text and a blank
\* line; without help text, the lines of the short help and a blank line;
\* without either, nothing at all, and then the usage block follows the
\* title's blank line directly
C7_Description ==
    r_desc # None =>
        /\ HasText(r_cmd.help) => DescriptionOf(r_desc[1], r_cmd.help[1])
        /\ ~HasText(r_cmd.help) /\ HasText(r_cmd.short_help) =>
                DescriptionOf(r_desc[1], r_cmd.short_help[1])
        /\ ~HasText(r_cmd.help) /\ ~HasText(r_cmd.short_help) =>
            /\ r_desc[1] = <<>>
            /\ r_pc = "done" =>
                /\ r_lines[2] = <<>>
                /\ SubSeq(r_lines, 3, 6)
                    = << S_Usage, S_Fence,
                         r_cmd.name \o << " " >> \o S_OptionsMetavar, S_Fence >>

\* C7 witness: a rendered command without help text whose short help has two
\* lines
C7_Witness ==
    /\ r_pc = "done"
    /\ ~HasText(r_cmd.help)
    /\ HasText(r_cmd.short_help)
    /\ Len(r_desc[1]) = 3

\* the lines between the fences of an options block
Between(block) == SubSeq(block, 3, Len(block) - 1)

\* C3 as stated: with or without the implicit help flag, _make_options
\* returns nothing for a command without declared options, and for N >= 1
\* declared options an 'Options:' line, an opening fence, at least N option
\* lines holding every declared option, and a closing fence, without the
\* formatter's heading and without the help flag's line
C3_OptionsBlock ==
    r_opts # None =>
        LET n == Len(r_cmd.params)
            block == r_opts[1]
        IN  /\ n = 0 => block = <<>>
            /\ n >= 1 =>
                /\ Len(block) >= n + 3
                /\ block[1] = S_Options
                /\ block[2] = S_FenceCode
                /\ block[Len(block)] = S_Fence
                /\ Between(block)
                    = Concat([k \in 1..n |-> OptionRecord(r_cmd.params[k])])
====
